---- MODULE Spec2Model ----
(***************************************************************************)
(* Model of the coupling-monitor backend: the construction of the weighted *)
(* service-dependency graph from trace batches (weighted_graph.py,         *)
(* graph_processor.py) and the change-point analysis of metric series      *)
(* (change_point_analyser.py).                                             *)
(*                                                                         *)
(* Fixed-point conventions: latencies and Jaccard similarities are         *)
(* Python floats rounded to 4 decimals; they are modelled as integers in   *)
(* units of 1/Scale (1e-4).                                                *)
(***************************************************************************)
EXTENDS Integers, Sequences, FiniteSets, TLC

\* ------------------------------------------------------------------ bounds
MaxTraces == 2
MaxLen == 4             \* longest metric series

\* ------------------------------------------------------- program constants
Scale == 10000          \* round(x, 4)
UsPerMs == 1000         \* duration / 1_000

\* ------------------------------------------------------------ input values
Missing == "MISSING"    \* a key that is absent from a dict
None == "NONE"          \* Python None
CHILD_OF == "CHILD_OF"
FOLLOWS_FROM == "FOLLOWS_FROM"

Services == {"A", "B", "C"}
PIDs == {"p1", "p2"}
Durations == {1000, 2000}

WEIGHT_TYPES == [Frequency |-> "frequency", Latency |-> "latency", CoExecution |-> "co_execution"]
RecognizedTypes == {WEIGHT_TYPES.Frequency, WEIGHT_TYPES.Latency, WEIGHT_TYPES.CoExecution}

Builders == {"generate_graph_with_edge_weights", "generate_weighted_graph",
             "generate_flat_graph_from_traces"}

\* --------------------------------------------------------------- utilities
RECURSIVE SumSeq(_)
SumSeq(s) == IF s = <<>> THEN 0 ELSE Head(s) + SumSeq(Tail(s))

\* Python round(): nearest, ties to even; num >= 0, den > 0
RoundHalfEven(num, den) ==
    LET q == num \div den
        r == num % den
    IN  IF 2 * r < den THEN q
        ELSE IF 2 * r > den THEN q + 1
        ELSE IF q % 2 = 0 THEN q ELSE q + 1

\* dict[k] = v
Put(d, k, v) == [x \in DOMAIN d \cup {k} |-> IF x = k THEN v ELSE d[x]]

EmptyDict == [x \in {} |-> 0]

\* ------------------------------------------------------------ trace inputs
Ref(t, id) == [refType |-> t, spanID |-> id]

\* reference lists of a child span whose sibling is `other`; "s3" is an id
\* that no span of the trace carries
RefLists(other) == { <<>>,
                     <<Ref(CHILD_OF, other)>>,
                     <<Ref(CHILD_OF, "s3")>>,
                     <<Ref(FOLLOWS_FROM, other), Ref(CHILD_OF, other)>>,
                     <<Ref(CHILD_OF, "s3"), Ref(CHILD_OF, other)>> }

Span(id, pid, d, r) == [spanID |-> id, processID |-> pid, duration |-> d, references |-> r]

ProcessMaps == UNION { [D -> Services] : D \in SUBSET PIDs }

\* well-formed traces: two spans s1, s2 run by processes p1, p2; s2 may be
\* a child of s1 and s1 a child of s2
WellFormedTraces ==
    { [processes |-> pm,
       spans |-> << Span("s1", "p1", 1000, r1), Span("s2", "p2", d, r2) >>] :
        pm \in ProcessMaps, r1 \in {<<>>, <<Ref(CHILD_OF, "s2")>>},
        d \in Durations, r2 \in RefLists("s1") }

\* the traces that get one field removed
MalformedBase == { t \in WellFormedTraces : t.processes = [p \in PIDs |-> IF p = "p1" THEN "A" ELSE "B"] }

\* one record of the trace lacks one of its fields
Malformations(t) ==
       { [t EXCEPT !.spans[i].spanID = Missing] : i \in DOMAIN t.spans }
  \cup { [t EXCEPT !.spans[i].processID = Missing] : i \in DOMAIN t.spans }
  \cup UNION { { [t EXCEPT !.spans[i].references[j].refType = Missing] :
                    j \in DOMAIN t.spans[i].references } : i \in DOMAIN t.spans }
  \cup UNION { { [t EXCEPT !.spans[i].references[j].spanID = Missing] :
                    j \in DOMAIN t.spans[i].references } : i \in DOMAIN t.spans }
  \cup { [t EXCEPT !.processes[p] = Missing] : p \in DOMAIN t.processes }

MalformedTraces == UNION { Malformations(t) : t \in MalformedBase }

\* ------------------------------------------------- weighted_graph.py: loop
\* {pid: details["serviceName"] for pid, details in processes.items()}
process_to_service(processes) == processes

\* details["serviceName"] raises KeyError for a process without serviceName
process_to_service_raises(processes) == \E p \in DOMAIN processes : processes[p] = Missing

\* the last CHILD_OF reference instead of the first
last_child_of(refs) ==
    LET cj == { j \in DOMAIN refs : refs[j].refType = CHILD_OF }
    IN  IF cj = {} THEN None
        ELSE refs[CHOOSE j \in cj : \A k \in cj : k <= j].spanID

\* for ref in span.get("references", []): first CHILD_OF reference
RECURSIVE first_child_of(_)
first_child_of(refs) ==
    IF refs = <<>> THEN None
    ELSE IF Head(refs).refType = Missing THEN "KeyError"
    ELSE IF Head(refs).refType = CHILD_OF
         THEN (IF Head(refs).spanID = Missing THEN "KeyError" ELSE Head(refs).spanID)
    ELSE first_child_of(Tail(refs))

\* next((s for s in spans if s["spanID"] == parent_span_id), None):
\* index of the first match, 0 for None, -1 for KeyError
RECURSIVE find_parent_span(_, _, _)
find_parent_span(spans, parent_span_id, i) ==
    IF i > Len(spans) THEN 0
    ELSE IF spans[i].spanID = Missing THEN -1
    ELSE IF spans[i].spanID = parent_span_id THEN i
    ELSE find_parent_span(spans, parent_span_id, i + 1)

add_trace_to_execution_sets(execution_sets, trace_id, parent_service) ==
    LET es == IF parent_service \in DOMAIN execution_sets THEN execution_sets
              ELSE Put(execution_sets, parent_service, {})
    IN  [es EXCEPT ![parent_service] = @ \cup {trace_id}]

add_call_without_increment(edge_weights, parent_service, child_service, duration) ==
    Put(edge_weights, <<parent_service, child_service>>, [count |-> 1, latencies |-> <<duration>>])

\* edge_weights[(parent, child)] count / latencies update
add_call(edge_weights, parent_service, child_service, duration) ==
    LET key == <<parent_service, child_service>>
    IN  IF key \in DOMAIN edge_weights
        THEN [edge_weights EXCEPT ![key] = [count |-> @.count + 1,
                                            latencies |-> Append(@.latencies, duration)]]
        ELSE Put(edge_weights, key, [count |-> 1, latencies |-> <<duration>>])

\* span.get("duration", 0) / 1_000, in units of 1/Scale ms
duration_ms(span) == (span.duration * Scale) \div UsPerMs

Raised(st) == [st EXCEPT !.err = TRUE]

self_loop_kept(parent_service, child_service) == FALSE

\* `if parent_service != child_service:  # Skip self-loops`, negated
is_self_loop(parent_service, child_service) == parent_service = child_service

\* body of `for span in spans` of generate_graph_with_edge_weights
gw_span(st, trace_id, p2s, spans, span) ==
    LET parent_span_id == first_child_of(span.references)
    IN  IF parent_span_id = "KeyError" THEN Raised(st)
        ELSE IF parent_span_id # None /\ parent_span_id # "" /\ span.processID \in DOMAIN p2s
        THEN LET child_service == p2s[span.processID]
                 pi == find_parent_span(spans, parent_span_id, 1)
             IN  IF pi = -1 THEN Raised(st)
                 ELSE IF pi = 0 THEN st
                 ELSE IF spans[pi].processID = Missing THEN Raised(st)
                 ELSE IF spans[pi].processID \in DOMAIN p2s
                 THEN LET parent_service == p2s[spans[pi].processID]
                          es1 == add_trace_to_execution_sets(st.es, trace_id, parent_service)
                      IN  IF ~is_self_loop(parent_service, child_service)
                          THEN [st EXCEPT
                                  !.es = add_trace_to_execution_sets(es1, trace_id, child_service),
                                  !.ew = add_call(st.ew, parent_service, child_service,
                                                  duration_ms(span))]
                          ELSE [st EXCEPT !.es = es1]
                 ELSE st
        ELSE st

RECURSIVE gw_spans(_, _, _, _, _)
gw_spans(st, trace_id, p2s, spans, i) ==
    IF st.err \/ i > Len(spans) THEN st
    ELSE gw_spans(gw_span(st, trace_id, p2s, spans, spans[i]), trace_id, p2s, spans, i + 1)

\* body of `for trace in traces` of generate_graph_with_edge_weights
gw_trace(st, trace) ==
    IF process_to_service_raises(trace.processes) THEN Raised(st)
    ELSE gw_spans(st, trace.traceID, process_to_service(trace.processes), trace.spans, 1)

\* ------------------------------------------- weighted_graph.py: finishing
jaccard_over_sum_of_sizes(execution_sets, source, destination) ==
    LET executions_source == IF source \in DOMAIN execution_sets
                             THEN execution_sets[source] ELSE {}
        executions_destination == IF destination \in DOMAIN execution_sets
                                  THEN execution_sets[destination] ELSE {}
        intersection_size == Cardinality(executions_source \cap executions_destination)
        union_size == Cardinality(executions_source) + Cardinality(executions_destination)
    IN  IF union_size > 0 THEN RoundHalfEven(intersection_size * Scale, union_size) ELSE 0

jaccard_over_source_size(execution_sets, source, destination) ==
    LET executions_source == IF source \in DOMAIN execution_sets
                             THEN execution_sets[source] ELSE {}
        executions_destination == IF destination \in DOMAIN execution_sets
                                  THEN execution_sets[destination] ELSE {}
        intersection_size == Cardinality(executions_source \cap executions_destination)
        union_size == Cardinality(executions_source)
    IN  IF union_size > 0 THEN RoundHalfEven(intersection_size * Scale, union_size) ELSE 0

compute_jaccard_similarity(execution_sets, source, destination) ==
    LET executions_source == IF source \in DOMAIN execution_sets
                             THEN execution_sets[source] ELSE {}
        executions_destination == IF destination \in DOMAIN execution_sets
                                  THEN execution_sets[destination] ELSE {}
        intersection_size == Cardinality(executions_source \cap executions_destination)
        union_size == Cardinality(executions_source \cup executions_destination)
    IN  IF union_size > 0 THEN RoundHalfEven(intersection_size * Scale, union_size) ELSE 0

\* round(sum(latencies) / len(latencies), 4)
avg_latency(latencies) == RoundHalfEven(SumSeq(latencies), Len(latencies))

\* a DiGraph: node attributes by node, edge attributes by (source, destination)
EmptyGraph == [nodes |-> EmptyDict, edges |-> EmptyDict]

NoAttrs == [absolute_importance |-> -1, absolute_dependence |-> -1]

\* nodes touched by add_edge
Endpoints(keys) == { k[1] : k \in keys } \cup { k[2] : k \in keys }

\* graph[source][destination] raises KeyError when no branch called add_edge
assign_edge_weights_raises(edge_weight_type, edge_weights) ==
    edge_weight_type \notin RecognizedTypes /\ DOMAIN edge_weights # {}

assign_selected_weight_as_frequency(edge_weight_type, graph, edge_weights, execution_sets) ==
    LET attrs(k) ==
          LET lat == avg_latency(edge_weights[k].latencies)
              co == compute_jaccard_similarity(execution_sets, k[1], k[2])
              w == IF edge_weight_type = WEIGHT_TYPES.Frequency THEN edge_weights[k].count
                   ELSE IF edge_weight_type = WEIGHT_TYPES.Latency THEN lat ELSE co
          IN  [weight |-> w, latency_ms |-> lat, frequency |-> w, co_execution |-> co]
    IN  [nodes |-> [v \in DOMAIN graph.nodes \cup Endpoints(DOMAIN edge_weights) |-> NoAttrs],
         edges |-> [k \in DOMAIN edge_weights |-> attrs(k)]]

assign_edge_weights(edge_weight_type, graph, edge_weights, execution_sets) ==
    LET attrs(k) ==
          LET lat == avg_latency(edge_weights[k].latencies)
              co == compute_jaccard_similarity(execution_sets, k[1], k[2])
          IN  [weight |-> IF edge_weight_type = WEIGHT_TYPES.Frequency
                             THEN edge_weights[k].count
                          ELSE IF edge_weight_type = WEIGHT_TYPES.Latency THEN lat
                          ELSE co,
               latency_ms |-> lat,
               frequency |-> edge_weights[k].count,
               co_execution |-> co]
    IN  [nodes |-> [v \in DOMAIN graph.nodes \cup Endpoints(DOMAIN edge_weights) |-> NoAttrs],
         edges |-> [k \in DOMAIN edge_weights |-> attrs(k)]]

predecessors(graph, v) == { u \in DOMAIN graph.nodes : <<u, v>> \in DOMAIN graph.edges }
successors(graph, v) == { w \in DOMAIN graph.nodes : <<v, w>> \in DOMAIN graph.edges }

node_weights_swapped(graph) ==
    [service_node \in DOMAIN graph.nodes |->
        [absolute_importance |-> Cardinality(successors(graph, service_node)),
         absolute_dependence |-> Cardinality(predecessors(graph, service_node))]]

calculate_node_weights(graph) ==
    [service_node \in DOMAIN graph.nodes |->
        [absolute_importance |-> Cardinality(predecessors(graph, service_node)),
         absolute_dependence |-> Cardinality(successors(graph, service_node))]]

\* lines 50-57: weights, node metrics, node_link_data
generate_graph_with_edge_weights(edge_weight_type, edge_weights, execution_sets) ==
    LET g == assign_edge_weights(edge_weight_type, EmptyGraph, edge_weights, execution_sets)
        nodes == calculate_node_weights(g)
    IN  [nodes |-> [v \in DOMAIN g.nodes \cup DOMAIN nodes |-> nodes[v]], edges |-> g.edges]

\* ------------------------------------------------------ graph_processor.py
\* parent/child resolution shared by the two builders of graph_processor.py:
\* "raise" (KeyError), "skip" (no edge for this span) or "call"
resolve_call(p2s, spans, span) ==
    LET parent_span_id == first_child_of(span.references)
        skip == [kind |-> "skip", parent |-> None, child |-> None]
        raise == [kind |-> "raise", parent |-> None, child |-> None]
    IN  IF parent_span_id = "KeyError" THEN raise
        ELSE IF parent_span_id # None /\ parent_span_id # "" /\ span.processID \in DOMAIN p2s
        THEN LET pi == find_parent_span(spans, parent_span_id, 1)
             IN  IF pi = -1 THEN raise
                 ELSE IF pi = 0 THEN skip
                 ELSE IF spans[pi].processID = Missing THEN raise
                 ELSE IF spans[pi].processID \in DOMAIN p2s
                 THEN [kind |-> "call", parent |-> p2s[spans[pi].processID],
                       child |-> p2s[span.processID]]
                 ELSE skip
        ELSE skip

\* body of `for span in spans` of generate_weighted_graph
wg_span(st, p2s, spans, span) ==
    LET r == resolve_call(p2s, spans, span)
    IN  IF r.kind = "raise" THEN Raised(st)
        ELSE IF r.kind = "call" /\ ~is_self_loop(r.parent, r.child)
        THEN [st EXCEPT !.ew = add_call(st.ew, r.parent, r.child, duration_ms(span))]
        ELSE st

\* body of `for span in spans` of generate_flat_graph_from_traces
fg_span(st, p2s, spans, span) ==
    LET r == resolve_call(p2s, spans, span)
        key == <<r.parent, r.child>>
    IN  IF r.kind = "raise" THEN Raised(st)
        ELSE IF r.kind = "call" /\ ~is_self_loop(r.parent, r.child)
        THEN IF key \in DOMAIN st.flat
             THEN [st EXCEPT !.flat[key] = @ + 1]
             ELSE [st EXCEPT !.flat = Put(st.flat, key, 1)]
        ELSE st

RECURSIVE gp_spans(_, _, _, _, _)
gp_spans(fn, st, p2s, spans, i) ==
    IF st.err \/ i > Len(spans) THEN st
    ELSE gp_spans(fn, IF fn = "generate_weighted_graph"
                      THEN wg_span(st, p2s, spans, spans[i])
                      ELSE fg_span(st, p2s, spans, spans[i]),
                  p2s, spans, i + 1)

\* body of `for trace in traces` of the two builders of graph_processor.py
gp_trace(fn, st, trace) ==
    IF process_to_service_raises(trace.processes) THEN Raised(st)
    ELSE gp_spans(fn, st, process_to_service(trace.processes), trace.spans, 1)

\* lines 46-56 of generate_weighted_graph; the mean latency is not rounded
\* and is kept as the pair <<sum, len>>
generate_weighted_graph_raises(weight_type, edge_weights) ==
    weight_type \notin {"frequency", "latency"} /\ DOMAIN edge_weights # {}

generate_weighted_graph(weight_type, edge_weights) ==
    [nodes |-> [v \in Endpoints(DOMAIN edge_weights) |-> <<>>],
     edges |-> [k \in DOMAIN edge_weights |->
                  [weight |-> IF weight_type = "frequency" THEN <<edge_weights[k].count, 1>>
                              ELSE <<SumSeq(edge_weights[k].latencies),
                                     Len(edge_weights[k].latencies)>>,
                   latency |-> <<SumSeq(edge_weights[k].latencies),
                                 Len(edge_weights[k].latencies)>>,
                   frequency |-> edge_weights[k].count]]]

\* the DiGraph returned by generate_flat_graph_from_traces
generate_flat_graph_from_traces(flat) ==
    [nodes |-> [v \in Endpoints(DOMAIN flat) |-> <<>>],
     edges |-> [k \in DOMAIN flat |-> [weight |-> flat[k]]]]

\* ------------------------------------------------------------------- state
VARIABLES
    fn,               \* the builder that is running
    pc,               \* "loop": consuming the batch; "done": graph returned; "raised"
    n,                \* number of traces of the batch consumed so far
    edge_weights,     \* (parent, child) -> [count, latencies]
    execution_sets,   \* service -> set of trace ids
    flat,             \* edge weights of the graph built by generate_flat_graph_from_traces
    edge_weight_type, \* the weight type the builder was called with
    graph,            \* the returned graph
    observed,         \* history: (parent, child) -> qualifying span pairs seen in the batch
    participants,     \* history: service -> traces in which it is in a qualifying span pair
    batch,            \* history: the traces consumed so far, when they are recorded
    series,           \* the values of the metric series under analysis (index = position)
    cost_model,       \* "l2" or "rbf"
    penalty,          \* penalty of the segmentation
    cp_pc,            \* position of the change-point analysis
    bkps,             \* boundary indices returned by detect_change_points
    change_points,    \* reported change points, as positions in the series index
    pelt_calls,       \* number of runs of the segmentation algorithm
    snapshots,        \* the persisted graph snapshots (raw list of metric entries)
    request,          \* [start_time, end_time, metric] of a change-point request
    response,         \* what the request ended with
    call,             \* the series-level function applied to the snapshots
    out,              \* its result
    window,           \* [start_time, end_time] given to get_gap_time_str
    gap_time,         \* its result
    neo,              \* the Neo4j store and the graph written to it
    corpus,           \* the trace files of TRACES_DIR
    retrieval,        \* a call of get_traces_from_files_within_timerange
    reply,            \* what a graph route answered
    clock,            \* the wall clock
    backend,          \* start times of the traces the tracing backend holds
    trace_updates,    \* persisted last_fetched_end_time_us of the service
    trace_collection, \* the traces stored so far
    col               \* locals of a running fetch_and_store_traces

build_vars == <<fn, pc, n, edge_weights, execution_sets, flat, edge_weight_type, graph,
                observed, participants, batch>>
cp_vars == <<series, cost_model, penalty, cp_pc, bkps, change_points, pelt_calls>>
an_vars == <<snapshots, request, response, call, out, window, gap_time>>
io_vars == <<neo, corpus, retrieval, reply, clock, backend, trace_updates,
            trace_collection, col>>
vars == <<build_vars, cp_vars, an_vars, io_vars>>

\* ------------------------------------------------ qualifying span pairs
Min(S) == CHOOSE x \in S : \A y \in S : x <= y

\* the parent of span i: the first span of the same trace carrying the id of
\* the span's first CHILD_OF reference
ParentOf(trace, i) ==
    LET refs == trace.spans[i].references
        cj == { j \in DOMAIN refs : refs[j].refType = CHILD_OF }
    IN  IF cj = {} THEN {}
        ELSE LET id == refs[Min(cj)].spanID
                 ks == { k \in DOMAIN trace.spans : trace.spans[k].spanID = id /\ id # Missing }
             IN  IF ks = {} THEN {} ELSE {Min(ks)}

Mapped(trace, i) ==
    /\ trace.spans[i].processID \in DOMAIN trace.processes
    /\ trace.processes[trace.spans[i].processID] # Missing

ServiceOf(trace, i) == trace.processes[trace.spans[i].processID]

\* <<child span, parent span>> with both services known and different
QualifyingPairs(trace) ==
    { ik \in (DOMAIN trace.spans) \X (DOMAIN trace.spans) :
        /\ ik[2] \in ParentOf(trace, ik[1])
        /\ Mapped(trace, ik[1]) /\ Mapped(trace, ik[2])
        /\ ServiceOf(trace, ik[1]) # ServiceOf(trace, ik[2]) }

Observe(obs, trace) ==
    [e \in Services \X Services |->
        obs[e] + Cardinality({ ik \in QualifyingPairs(trace) :
                                 <<ServiceOf(trace, ik[2]), ServiceOf(trace, ik[1])>> = e })]

Participate(part, trace) ==
    [v \in Services |->
        IF \E ik \in QualifyingPairs(trace) :
              v \in {ServiceOf(trace, ik[1]), ServiceOf(trace, ik[2])}
        THEN part[v] \cup {trace.traceID} ELSE part[v]]

\* ----------------------------------------------------------------- actions
CPIdle ==
    /\ series = <<>> /\ cost_model = None /\ penalty = 0 /\ cp_pc = "idle"
    /\ bkps = <<>> /\ change_points = <<>> /\ pelt_calls = 0

NoRequest == [start_time |-> 0, end_time |-> 0, metric |-> None]
NoResponse == [status |-> None, kind |-> None, data_type |-> None, calls |-> <<>>]
NoCall == [op |-> None, metric |-> None, entity |-> None]
NoOut == [raised |-> FALSE, value |-> <<>>]
NoWindow == [start_time |-> <<0, 0>>, end_time |-> <<0, 0>>]

HandlerIdle == request = NoRequest /\ response = NoResponse
SeriesIdle == call = NoCall /\ out = NoOut
NoGapTime == [raised |-> FALSE, text |-> <<>>]
GapIdle == window = NoWindow /\ gap_time = NoGapTime

\* a Neo4j store: Service nodes and the weight of every CALLS relationship
EmptyStore == [nodes |-> {}, rels |-> EmptyDict]
NoNeo == [graph |-> EmptyDict, store |-> EmptyStore, first |-> EmptyStore, runs |-> 0]
NoRetrieval == [start_us |-> 0, end_us |-> 0, returned |-> FALSE, failed |-> FALSE,
                traces |-> {}]
NoReply == [route |-> None, status |-> None, message |-> None]
NoCursor == -1
NoCol == [pc |-> "idle", last_end_time_us |-> 0, current_time_us |-> 0,
          next_end_time_us |-> 0, consecutive_no_trace_batches |-> 0,
          total_stored |-> 0, origin |-> NoCursor]

\* last_fetched_end_time_us = None is kept as -1

StoreIdle == neo = NoNeo
NoCorpus == [listable |-> TRUE, files |-> {}]
FilesIdle == corpus = NoCorpus /\ retrieval = NoRetrieval /\ reply = NoReply
CollectorIdle ==
    /\ clock = 0 /\ backend = {} /\ trace_updates = NoCursor /\ trace_collection = {}
    /\ col = NoCol
IoIdle == StoreIdle /\ FilesIdle /\ CollectorIdle

Init ==
    /\ CPIdle /\ IoIdle
    /\ snapshots = <<>> /\ HandlerIdle /\ SeriesIdle /\ GapIdle
    /\ participants = [v \in Services |-> {}]
    /\ batch = <<>>
    /\ fn \in Builders
    /\ pc = "loop"
    /\ n = 0
    /\ edge_weights = EmptyDict
    /\ execution_sets = EmptyDict
    /\ flat = EmptyDict
    /\ edge_weight_type = None
    /\ graph = EmptyGraph
    /\ observed = [e \in Services \X Services |-> 0]

\* one iteration of `for trace in traces`
Consume(t) ==
    /\ pc = "loop"
    /\ n < MaxTraces
    /\ LET trace == [traceID |-> n + 1, processes |-> t.processes, spans |-> t.spans]
           st == [ew |-> edge_weights, es |-> execution_sets, flat |-> flat, err |-> FALSE]
           st2 == IF fn = "generate_graph_with_edge_weights" THEN gw_trace(st, trace)
                  ELSE gp_trace(fn, st, trace)
       IN  IF st2.err
           THEN /\ pc' = "raised"
                /\ UNCHANGED <<n, edge_weights, execution_sets, flat, observed, participants>>
           ELSE /\ pc' = "loop"
                /\ n' = n + 1
                /\ edge_weights' = st2.ew
                /\ execution_sets' = st2.es
                /\ flat' = st2.flat
                /\ observed' = Observe(observed, trace)
                /\ participants' = Participate(participants, trace)
    /\ UNCHANGED <<fn, edge_weight_type, graph, batch>>
    /\ UNCHANGED cp_vars
    /\ UNCHANGED an_vars
    /\ UNCHANGED io_vars

NextTrace == \E t \in WellFormedTraces : Consume(t)

NextMalformedTrace == \E t \in MalformedTraces : Consume(t)

\* the batch is exhausted: weights, node metrics and the returned graph
Finish(wt) ==
    /\ pc = "loop"
    /\ edge_weight_type' = wt
    /\ IF fn = "generate_graph_with_edge_weights"
       THEN IF assign_edge_weights_raises(wt, edge_weights)
            THEN pc' = "raised" /\ UNCHANGED graph
            ELSE /\ pc' = "done"
                 /\ graph' = generate_graph_with_edge_weights(wt, edge_weights, execution_sets)
       ELSE IF fn = "generate_weighted_graph"
       THEN IF generate_weighted_graph_raises(wt, edge_weights)
            THEN pc' = "raised" /\ UNCHANGED graph
            ELSE /\ pc' = "done"
                 /\ graph' = generate_weighted_graph(wt, edge_weights)
       ELSE /\ pc' = "done"
            /\ graph' = generate_flat_graph_from_traces(flat)
    /\ UNCHANGED <<fn, n, edge_weights, execution_sets, flat, observed, participants,
                   batch>>
    /\ UNCHANGED cp_vars
    /\ UNCHANGED an_vars
    /\ UNCHANGED io_vars

Generate == \E wt \in RecognizedTypes \cup {"other"} : Finish(wt)

Next == NextTrace \/ NextMalformedTrace \/ Generate

Spec == Init /\ [][Next]_vars

\* ------------------------------------------------------------- properties
IsGW == fn = "generate_graph_with_edge_weights"

ExecutionSet(v) == IF v \in DOMAIN execution_sets THEN execution_sets[v] ELSE {}

\* C1: the graph returned by generate_graph_with_edge_weights has exactly one
\* edge for each ordered pair (parent, child), parent # child, with at least
\* one qualifying span pair in the batch, the edge's frequency is the number
\* of those span pairs, and no other edge exists.
C1_OneEdgePerObservedPair ==
    (pc = "done" /\ IsGW) =>
        /\ DOMAIN graph.edges = { e \in Services \X Services : observed[e] > 0 }
        /\ \A e \in DOMAIN graph.edges : e[1] # e[2] /\ graph.edges[e].frequency = observed[e]

C1_Witness ==
    /\ pc = "done" /\ IsGW
    /\ \E e \in DOMAIN graph.edges : graph.edges[e].frequency >= 2
    /\ Cardinality(DOMAIN graph.edges) >= 2

\* C2: no graph produced by any of the three builders has an edge whose
\* source service equals its target service.
C2_NoSelfLoops ==
    pc = "done" => \A e \in DOMAIN graph.edges : e[1] # e[2]

\* a self-loop span was consumed (its service is in an ExecutionSet but is
\* not a node) and the returned graph has edges
C2_Witness ==
    /\ pc = "done" /\ IsGW
    /\ DOMAIN graph.edges # {}
    /\ \E v \in DOMAIN execution_sets : v \notin DOMAIN graph.nodes

\* C3: compute_jaccard_similarity is within [0,1], is 0 for disjoint or empty
\* ExecutionSets (services absent from the mapping included) and 1 for
\* identical non-empty ExecutionSets.
C3_JaccardRange ==
    \A a \in Services, b \in Services :
        LET j == compute_jaccard_similarity(execution_sets, a, b)
        IN  /\ 0 <= j /\ j <= Scale
            /\ (ExecutionSet(a) \cap ExecutionSet(b) = {}) => j = 0
            /\ (ExecutionSet(a) = ExecutionSet(b) /\ ExecutionSet(a) # {}) => j = Scale

C3_Witness ==
    /\ \E a \in Services, b \in Services :
          a # b /\ ExecutionSet(a) = ExecutionSet(b) /\ ExecutionSet(a) # {}
    /\ \E a \in Services, b \in Services :
          /\ ExecutionSet(a) # {} /\ ExecutionSet(b) # {}
          /\ ExecutionSet(a) \cap ExecutionSet(b) = {}

\* C4: co_execution is symmetric: compute_jaccard_similarity(es, a, b) equals
\* compute_jaccard_similarity(es, b, a), and the edges a->b and b->a of a
\* built graph carry the same co_execution.
C4_JaccardSymmetric ==
    /\ \A a \in Services, b \in Services :
          compute_jaccard_similarity(execution_sets, a, b)
            = compute_jaccard_similarity(execution_sets, b, a)
    /\ (pc = "done" /\ IsGW) =>
          \A e \in DOMAIN graph.edges :
              <<e[2], e[1]>> \in DOMAIN graph.edges =>
                  graph.edges[e].co_execution = graph.edges[<<e[2], e[1]>>].co_execution

C4_Witness ==
    /\ pc = "done" /\ IsGW
    /\ \E e \in DOMAIN graph.edges :
          /\ <<e[2], e[1]>> \in DOMAIN graph.edges
          /\ ExecutionSet(e[1]) # ExecutionSet(e[2])

\* C5: in the returned graph every node carries absolute_importance = number
\* of distinct services with an edge into it and absolute_dependence = number
\* of distinct services with an edge out of it, whatever the weight type.
C5_NodeMetrics ==
    (pc = "done" /\ IsGW) =>
        /\ DOMAIN graph.nodes = Endpoints(DOMAIN graph.edges)
        /\ \A v \in DOMAIN graph.nodes :
              /\ graph.nodes[v].absolute_importance
                   = Cardinality({ u \in Services : <<u, v>> \in DOMAIN graph.edges })
              /\ graph.nodes[v].absolute_dependence
                   = Cardinality({ w \in Services : <<v, w>> \in DOMAIN graph.edges })
        /\ \A wt \in RecognizedTypes :
              generate_graph_with_edge_weights(wt, edge_weights, execution_sets).nodes
                = graph.nodes

C5_Witness ==
    /\ pc = "done" /\ IsGW
    /\ \E v \in DOMAIN graph.nodes :
          graph.nodes[v].absolute_importance = 2 /\ graph.nodes[v].absolute_dependence = 0
    /\ \E v \in DOMAIN graph.nodes :
          graph.nodes[v].absolute_importance = 0 /\ graph.nodes[v].absolute_dependence = 1

\* C6: a span skipped by the normalizer (parent unresolved, process mapping
\* missing, or a self-loop) contributes nothing: edge counts, latency samples
\* and every ExecutionSet are those of the batch without its skipped spans,
\* so a self-loop span adds its trace id to no ExecutionSet.
C6_SkippedSpanContributesNothing ==
    (IsGW /\ pc = "loop") =>
        /\ DOMAIN edge_weights = { e \in Services \X Services : observed[e] > 0 }
        /\ \A e \in DOMAIN edge_weights :
              edge_weights[e].count = observed[e] /\ Len(edge_weights[e].latencies) = observed[e]
        /\ \A v \in Services : ExecutionSet(v) = participants[v]

\* C7: one malformed span or process record never aborts the build:
\* generate_graph_with_edge_weights does not leave its loop by an exception.
C7_MalformedNeverAborts ==
    ~ (IsGW /\ pc = "raised" /\ edge_weight_type = None)

\* C8: for each recognized weight type every edge of the returned graph
\* carries frequency, latency(ms) and co_execution, with the values any other
\* recognized weight type gives.
C8_AllWeightsStored ==
    (pc = "done" /\ IsGW /\ edge_weight_type \in RecognizedTypes) =>
        \A wt \in RecognizedTypes :
            LET g == generate_graph_with_edge_weights(wt, edge_weights, execution_sets)
            IN  /\ DOMAIN g.edges = DOMAIN graph.edges
                /\ \A e \in DOMAIN graph.edges :
                      /\ {"frequency", "latency_ms", "co_execution"} \subseteq DOMAIN graph.edges[e]
                      /\ g.edges[e].frequency = graph.edges[e].frequency
                      /\ g.edges[e].latency_ms = graph.edges[e].latency_ms
                      /\ g.edges[e].co_execution = graph.edges[e].co_execution

C8_Witness ==
    /\ pc = "done" /\ IsGW /\ edge_weight_type = WEIGHT_TYPES.Latency
    /\ \E e \in DOMAIN graph.edges :
          /\ graph.edges[e].frequency = 2
          /\ graph.edges[e].latency_ms = 15000
          /\ graph.edges[e].co_execution = Scale
          /\ graph.edges[e].weight = 15000

\* ------------------------------------------- change_point_analyser.py
Values == {0, 1, 2}                 \* metric values of a series
Penalties == {1, 3, 10}             \* 3.0 and 10 are the penalties the code passes
CostModels == {"l2", "rbf"}

Signals == UNION { [1..k -> Values] : k \in 0..MaxLen }

IsConstant(signal) == \A i \in DOMAIN signal, j \in DOMAIN signal : signal[i] = signal[j]

RECURSIVE Factorial(_)
Factorial(k) == IF k <= 1 THEN 1 ELSE k * Factorial(k - 1)

\* costs are rationals with denominators up to the series length; they are
\* kept as integers in units of 1 / (LenScale * Scale)
LenScale == Factorial(MaxLen + 1)

\* Gaussian kernel exp(-d^2) in units of 1/Scale
RbfKernel(x, y) ==
    LET d == IF x >= y THEN x - y ELSE y - x
    IN  CASE d = 0 -> Scale [] d = 1 -> 3679 [] d = 2 -> 183 [] d = 3 -> 1 [] OTHER -> 0

RECURSIVE SumOver(_, _, _)
SumOver(F(_), lo, hi) == IF lo > hi THEN 0 ELSE F(lo) + SumOver(F, lo + 1, hi)

\* cost of the segment signal[s+1 .. e] (Python signal[s:e])
\*   l2:  sum of squared deviations from the segment mean
\*   rbf: sum_i k(x_i, x_i) - (1 / len) sum_i sum_j k(x_i, x_j)
SegmentCost(model, signal, s, e) ==
    LET len == e - s
        sq(i) == signal[i] * signal[i]
        id(i) == signal[i]
        row(i) == LET k(j) == RbfKernel(signal[i], signal[j]) IN SumOver(k, s + 1, e)
    IN  IF model = "l2"
        THEN (LenScale \div len) * Scale
                * (len * SumOver(sq, s + 1, e) - SumOver(id, s + 1, e) * SumOver(id, s + 1, e))
        ELSE LenScale * len * Scale - (LenScale \div len) * SumOver(row, s + 1, e)

RECURSIVE SortedSeq(_)
SortedSeq(S) == IF S = {} THEN <<>> ELSE <<Min(S)>> \o SortedSeq(S \ {Min(S)})

\* penalized cost of the partition with boundaries B (strictly inside 1..n-1)
PartitionCost(model, signal, pen, B) ==
    LET b == <<0>> \o SortedSeq(B) \o <<Len(signal)>>
        seg(i) == SegmentCost(model, signal, b[i], b[i + 1])
    IN  SumOver(seg, 1, Len(b) - 1) + Cardinality(B) * pen * LenScale * Scale

PeltRaise == <<-1>>

\* rpt.Pelt(model).fit(signal).predict(pen): the boundary lists of minimal
\* penalized cost, each ending with the terminal sentinel len(signal); on
\* fewer than 2 points segmentation is undefined (it fails or returns the
\* sentinel alone)
Pelt(model, signal, pen) ==
    IF Len(signal) < 2 THEN {PeltRaise, <<Len(signal)>>}
    ELSE LET cands == SUBSET (1..(Len(signal) - 1))
             best == { B \in cands : \A C \in cands :
                          PartitionCost(model, signal, pen, B)
                            <= PartitionCost(model, signal, pen, C) }
         IN  { SortedSeq(B) \o <<Len(signal)>> : B \in best }

\* detect_change_points skips the algorithm on fewer than 2 points
detect_change_points_runs_pelt(signal) == ~ (Len(signal) < 2)

detect_change_points(signal, pelt_result) ==
    IF Len(signal) < 2 THEN <<0, Len(signal)>> ELSE pelt_result

keep_sentinel(b) == b

\* bkps[1:], the wrong end
drop_first(b) == IF b = <<>> THEN <<>> ELSE Tail(b)

\* bkps[:-1]
drop_sentinel(b) == IF b = <<>> THEN <<>> ELSE SubSeq(b, 1, Len(b) - 1)

\* [index[i] for i in idxs]: IndexError when a position is outside the index
index_lookup_raises(index_len, idxs) ==
    \E k \in DOMAIN idxs : idxs[k] >= index_len \/ idxs[k] < -index_len

\* build_response: change_points = [df.index[idx] for idx in bkps[:-1]]
build_response(index_len, b) == drop_sentinel(b)

\* _detect_change_points: algo.predict(pen=pen)[:-1], then series.index[i]
private_detect_change_points(pelt_result) == drop_sentinel(pelt_result)

\* no graph is being built
BuildIdle ==
    /\ fn = "generate_graph_with_edge_weights" /\ pc = "idle" /\ n = 0
    /\ edge_weights = EmptyDict /\ execution_sets = EmptyDict /\ flat = EmptyDict
    /\ edge_weight_type = None /\ graph = EmptyGraph
    /\ observed = [e \in Services \X Services |-> 0]
    /\ participants = [v \in Services |-> {}]
    /\ batch = <<>>

InitCP ==
    /\ BuildIdle /\ IoIdle
    /\ snapshots = <<>> /\ HandlerIdle /\ SeriesIdle /\ GapIdle
    /\ series \in Signals
    /\ cost_model \in CostModels
    /\ penalty \in Penalties
    /\ cp_pc = "start"
    /\ bkps = <<>>
    /\ change_points = <<>>
    /\ pelt_calls = 0

\* bkps = detect_change_points(signal, penalty); its only caller has returned
\* 404 for an empty DataFrame before (handle_detect_change_points, line 247)
DetectChangePoints ==
    /\ cp_pc = "start"
    /\ series # <<>>
    /\ IF detect_change_points_runs_pelt(series)
       THEN \E r \in Pelt(cost_model, series, penalty) :
              /\ pelt_calls' = pelt_calls + 1
              /\ IF r = PeltRaise
                 THEN cp_pc' = "raised" /\ UNCHANGED bkps
                 ELSE cp_pc' = "detected" /\ bkps' = detect_change_points(series, r)
       ELSE /\ bkps' = detect_change_points(series, <<>>)
            /\ cp_pc' = "detected"
            /\ UNCHANGED pelt_calls
    /\ UNCHANGED <<series, cost_model, penalty, change_points>>
    /\ UNCHANGED build_vars
    /\ UNCHANGED an_vars
    /\ UNCHANGED io_vars

\* build_response(df, metric, bkps)
BuildResponse ==
    /\ cp_pc = "detected"
    /\ IF index_lookup_raises(Len(series), drop_sentinel(bkps))
       THEN cp_pc' = "index_error" /\ UNCHANGED change_points
       ELSE cp_pc' = "done" /\ change_points' = build_response(Len(series), bkps)
    /\ UNCHANGED <<series, cost_model, penalty, bkps, pelt_calls>>
    /\ UNCHANGED build_vars
    /\ UNCHANGED an_vars
    /\ UNCHANGED io_vars

\* body of the loops of analyze_node_change_points / analyze_edge_change_points:
\* results[key] = [] if df.empty else _detect_change_points(df[metric], model, pen)
AnalyzeEntity ==
    /\ cp_pc = "start"
    /\ IF series = <<>>
       THEN cp_pc' = "done" /\ change_points' = <<>> /\ UNCHANGED pelt_calls
       ELSE \E r \in Pelt(cost_model, series, penalty) :
              /\ pelt_calls' = pelt_calls + 1
              /\ IF r = PeltRaise
                 THEN cp_pc' = "raised" /\ UNCHANGED change_points
                 ELSE IF index_lookup_raises(Len(series), drop_sentinel(r))
                 THEN cp_pc' = "index_error" /\ UNCHANGED change_points
                 ELSE cp_pc' = "done" /\ change_points' = private_detect_change_points(r)
    /\ UNCHANGED <<series, cost_model, penalty, bkps>>
    /\ UNCHANGED build_vars
    /\ UNCHANGED an_vars
    /\ UNCHANGED io_vars

NextCP == DetectChangePoints \/ BuildResponse \/ AnalyzeEntity

SpecCP == InitCP /\ [][NextCP]_vars

\* C9: for a series of length 0 or 1 every analysis path reports an empty
\* change-point set and does not run the segmentation algorithm.
C9_ShortSeriesNoChangePoints ==
    (Len(series) < 2 /\ cp_pc \in {"done", "raised", "index_error"}) =>
        cp_pc = "done" /\ change_points = <<>> /\ pelt_calls = 0

\* C10: for a constant signal of length >= 2 and any positive penalty the
\* segmentation returns only the terminal sentinel, and the reported
\* change-point set (sentinel dropped) is empty.
C10_ConstantSignalNoChangePoints ==
    (Len(series) >= 2 /\ IsConstant(series)) =>
        /\ Pelt(cost_model, series, penalty) = { <<Len(series)>> }
        /\ (cp_pc \in {"detected", "done"} /\ bkps # <<>>) => bkps = <<Len(series)>>
        /\ cp_pc \notin {"raised", "index_error"}
        /\ cp_pc = "done" => change_points = <<>>

C10_Witness ==
    /\ Len(series) >= 3 /\ IsConstant(series)
    /\ cp_pc = "done" /\ pelt_calls = 1 /\ change_points = <<>>

\* C11: every reported change point is a timestamp of the analysed series:
\* the last boundary (the series length) is dropped, every other boundary i
\* has 0 <= i < len(series), so the lookup never leaves the index, and the
\* reported positions are in ascending series order.
C11_ChangePointsWithinSeries ==
    /\ cp_pc # "index_error"
    /\ (cp_pc \in {"detected", "done"} /\ bkps # <<>>) => bkps[Len(bkps)] = Len(series)
    /\ cp_pc = "done" =>
          /\ \A k \in DOMAIN change_points :
                change_points[k] >= 0 /\ change_points[k] < Len(series)
          /\ \A k \in DOMAIN change_points :
                k > 1 => change_points[k - 1] < change_points[k]
          /\ bkps # <<>> => change_points \o <<Len(series)>> = bkps

C11_Witness ==
    /\ cp_pc = "done" /\ Len(change_points) >= 2 /\ bkps # <<>>

\* a non-constant signal does get a change point
CP_SomeChangePoint == cp_pc = "done" /\ change_points # <<>> /\ Len(series) >= 2

-----------------------------------------------------------------------------
\* Persisted graph snapshots, as the analyzer receives them

\* largest number of snapshots in the store
MaxSnapshots == 2

\* dict.get(key, default)
Get(d, key, default) == IF key \in DOMAIN d THEN d[key] ELSE default

\* field names of the persisted schema, and the names the analyzer reads
Schemas == {"persisted", "analyzer"}

NodeRecord(schema, id, imp, dep) ==
    IF schema = "persisted"
    THEN [id |-> id, absolute_importance |-> imp, absolute_dependence |-> dep]
    ELSE [id |-> id, absoluteimportance |-> imp, absolutedependence |-> dep]

EdgeRecord(schema, src, tgt, lat, freq, co) ==
    IF schema = "persisted"
    THEN [source |-> src, target |-> tgt, latency |-> lat, frequency |-> freq,
          co_execution |-> co]
    ELSE [source |-> src, target |-> tgt, latency |-> lat, frequency |-> freq,
          coexecution |-> co]

NodeLists(schema) ==
    { <<>>,
      << NodeRecord(schema, "A", 1, 2) >>,
      << NodeRecord(schema, "A", 2, 1) >>,
      << NodeRecord(schema, "A", 1, 1), NodeRecord(schema, "B", 2, 2) >> }

EdgeLists(schema) ==
    { <<>>,
      << EdgeRecord(schema, "A", "B", 15, 2, 1) >>,
      << EdgeRecord(schema, "B", "A", 20, 3, 1) >> }

SnapshotData(schema) ==
    { [nodes |-> ns, edges |-> es] : ns \in NodeLists(schema), es \in EdgeLists(schema) }

\* the end_time of the k-th of len entries: stored oldest first or newest first
EndTime(order, k, len) == IF order = "ascending" THEN k ELSE len + 1 - k

SnapshotLists ==
    UNION { { [k \in 1..len |-> [end_time |-> EndTime(order, k, len), data |-> ds[k]]] :
                ds \in [1..len -> SnapshotData(schema)] } :
            <<schema, order, len>> \in Schemas \X {"ascending", "descending"} \X (0..MaxSnapshots) }

-----------------------------------------------------------------------------
\* The change-point request handler and the /change-points route

MetricNames ==
    {"imp", "dep", "lat", "freq", "coexec",
     "absolute_importance", "absolute_dependence", "latency", "frequency",
     "co_execution", "coexecution", "cpu"}

\* epoch microseconds of a request; 0 is the routes' "not given"
Times == {0, 1, 2}

ValueError == "ValueError"
TypeError == "TypeError"

classify_metric(metric) ==
    IF metric \in {"imp", "dep"} THEN "nodes"
    ELSE IF metric \in {"lat", "freq", "coexec"} THEN "edges"
    ELSE ValueError

\* the parameters get_metrics_within_time_range declares
get_metrics_within_time_range_params == <<"start_time", "end_time", "type">>

\* a call with fewer positional arguments than parameters raises TypeError
call_raises(params, args) == Len(args) # Len(params)

Response(status, kind, data_type, calls) ==
    [status |-> status, kind |-> kind, data_type |-> data_type, calls |-> calls]

\* lines 238-256, reached only if the store call returns: no snapshot gives an
\* empty frame and 404; otherwise the frame has one row per snapshot and the
\* segmentation of its signal is reported
handle_after_fetch(data_type, store) ==
    IF store = <<>>
    THEN Response("404", "NoData", data_type,
                  <<"classify_metric", "get_metrics_within_time_range">>)
    ELSE Response("200", "success", data_type,
                  <<"classify_metric", "get_metrics_within_time_range">>)

handle_fetch_before_classify(start_time, end_time, metric, store) ==
    IF call_raises(get_metrics_within_time_range_params, <<start_time, end_time>>)
    THEN Response("raised", TypeError, None, <<"get_metrics_within_time_range">>)
    ELSE handle_after_fetch(classify_metric(metric), store)

\* the call of the store passes two arguments to a function of three
\* parameters
handle_detect_change_points(start_time, end_time, metric, store) ==
    IF classify_metric(metric) = ValueError
    THEN Response("400", "InvalidMetric", None, <<"classify_metric">>)
    ELSE IF call_raises(get_metrics_within_time_range_params, <<start_time, end_time>>)
    THEN Response("raised", TypeError, classify_metric(metric),
                  <<"classify_metric", "get_metrics_within_time_range">>)
    ELSE handle_after_fetch(classify_metric(metric), store)

\* GET /change-points of the graphs router
change_points_route(start_time, end_time) ==
    IF start_time # 0 /\ end_time # 0 /\ start_time >= end_time
    THEN Response("400", "InvalidTimeRange", None, <<>>)
    ELSE Response("200", "success", None, <<>>)

\* the stores a request is served against
RequestStores == { raw \in SnapshotLists : Len(raw) <= 1 }

InitH ==
    /\ BuildIdle /\ CPIdle /\ SeriesIdle /\ GapIdle /\ IoIdle
    /\ snapshots \in RequestStores
    /\ request = NoRequest /\ response = NoResponse

HandleDetectChangePoints ==
    /\ response = NoResponse
    /\ \E st \in Times, et \in Times, metric \in MetricNames :
        /\ request' = [start_time |-> st, end_time |-> et, metric |-> metric]
        /\ response' = handle_detect_change_points(st, et, metric, snapshots)
    /\ UNCHANGED io_vars
    /\ UNCHANGED <<build_vars, cp_vars, snapshots, call, out, window, gap_time>>

ChangePointsRoute ==
    /\ response = NoResponse
    /\ \E st \in Times, et \in Times :
        /\ request' = [start_time |-> st, end_time |-> et, metric |-> None]
        /\ response' = change_points_route(st, et)
    /\ UNCHANGED io_vars
    /\ UNCHANGED <<build_vars, cp_vars, snapshots, call, out, window, gap_time>>

NextH == HandleDetectChangePoints \/ ChangePointsRoute

SpecH == InitH /\ [][NextH]_vars

Handled == response # NoResponse /\ request.metric # None
Called(name) == \E i \in DOMAIN response.calls : response.calls[i] = name

\* C12: an unrecognized metric ends the request with 400 InvalidMetric and no
\* call of the store; the store is called only after classify_metric returned
\* a data type
C12_InvalidMetricBeforeFetch ==
    Handled =>
        /\ classify_metric(request.metric) = ValueError =>
              /\ response.status = "400" /\ response.kind = "InvalidMetric"
              /\ ~Called("get_metrics_within_time_range")
        /\ \A i \in DOMAIN response.calls :
              response.calls[i] = "get_metrics_within_time_range" =>
                  /\ \E j \in 1..(i - 1) : response.calls[j] = "classify_metric"
                  /\ response.data_type \in {"nodes", "edges"}

C12_Witness ==
    /\ Handled /\ request.metric = "cpu"
    /\ response.status = "400" /\ response.calls = <<"classify_metric">>

\* a recognized metric does reach the store call
H_StoreCalled == Handled /\ Called("get_metrics_within_time_range")

\* C13: classify_metric accepts exactly absolute_importance and
\* absolute_dependence (as "nodes") and frequency, latency and co_execution
\* (as "edges"), and fails for every other name
C13_ClassifyAcceptsSchemaNames ==
    Handled =>
        response.data_type =
            IF request.metric \in {"absolute_importance", "absolute_dependence"}
            THEN "nodes"
            ELSE IF request.metric \in {"frequency", "latency", "co_execution"}
            THEN "edges"
            ELSE None

\* C14: a request with start_time >= end_time, a zero bound included, ends
\* with InvalidTimeRange, in the handler and in the /change-points route
C14_InvertedRangeRejected ==
    (response # NoResponse /\ request.start_time >= request.end_time) =>
        /\ response.kind = "InvalidTimeRange"
        /\ ~Called("get_metrics_within_time_range")

\* C15: with no snapshot in the window the handler reports NoData (404) and
\* does not raise
C15_NoSnapshotsNoData ==
    (Handled /\ snapshots = <<>> /\ classify_metric(request.metric) # ValueError) =>
        response.status = "404" /\ response.kind = "NoData"

\* C20: the handler ends in exactly one of success, 400 InvalidMetric and
\* 404 NoData, and never raises
C20_StructuredOutcome ==
    Handled =>
        /\ response.status # "raised"
        /\ <<response.status, response.kind>> \in
              { <<"200", "success">>, <<"400", "InvalidMetric">>, <<"404", "NoData">> }

-----------------------------------------------------------------------------
\* Metric series and candidate entities built from the snapshots

\* float(np.mean(vals)) in units of 1/Scale
mean(vals) == (SumSeq(vals) * Scale) \div Len(vals)

\* DataFrame.sort_index on the time index
RECURSIVE sort_index(_)
sort_index(records) ==
    IF records = <<>> THEN <<>>
    ELSE LET last == records[Len(records)]
             rest == sort_index(SubSeq(records, 1, Len(records) - 1))
         IN  SelectSeq(rest, LAMBDA r : r.time <= last.time) \o <<last>>
                 \o SelectSeq(rest, LAMBDA r : r.time > last.time)

Column(records, key, default) == [k \in DOMAIN records |-> Get(records[k], key, default)]

Returned(value) == [raised |-> FALSE, value |-> value]
RaisedValueError == [raised |-> TRUE, value |-> <<>>]

\* the values one snapshot adds to a node series: always exactly one
node_value(metric, nodes) ==
    LET vals == Column(nodes, IF metric = "imp" THEN "absoluteimportance"
                              ELSE "absolutedependence", 0)
    IN  << IF vals # <<>> THEN mean(vals) ELSE 0 >>

Points(time, vals) == [k \in DOMAIN vals |-> [time |-> time, value |-> vals[k]]]

RECURSIVE Flatten(_)
Flatten(seqs) == IF seqs = <<>> THEN <<>> ELSE Head(seqs) \o Flatten(Tail(seqs))

fetch_node_metrics(metric, node_id, raw) ==
    IF raw = <<>> THEN Returned(<<>>)
    ELSE IF metric \notin {"imp", "dep"} THEN RaisedValueError
    ELSE LET nodes(entry) ==
                 IF node_id # None
                 THEN SelectSeq(entry.data.nodes, LAMBDA nd : Get(nd, "id", None) = node_id)
                 ELSE entry.data.nodes
         IN  Returned(sort_index(Flatten(
                 [k \in DOMAIN raw |->
                     Points(raw[k].end_time, node_value(metric, nodes(raw[k])))])))

\* the values one snapshot adds to an edge series: always exactly one
edge_value(metric, edges) ==
    IF metric = "freq" THEN << SumSeq(Column(edges, "frequency", 0)) >>
    ELSE IF metric = "lat"
    THEN << IF edges # <<>> THEN mean(Column(edges, "latency", 0)) ELSE 0 >>
    ELSE << IF edges # <<>>
            THEN mean([k \in DOMAIN edges |->
                          Get(edges[k], "coexecution", Get(edges[k], "coexec", 0))])
            ELSE 0 >>

fetch_edge_metrics(metric, source, target, raw) ==
    IF raw = <<>> THEN Returned(<<>>)
    ELSE IF metric \notin {"freq", "lat", "coexec", "coexecution"} THEN RaisedValueError
    ELSE LET edges(entry) ==
                 IF source # None /\ target # None
                 THEN SelectSeq(entry.data.edges,
                                LAMBDA e : Get(e, "source", None) = source
                                           /\ Get(e, "target", None) = target)
                 ELSE entry.data.edges
         IN  Returned(sort_index(Flatten(
                 [k \in DOMAIN raw |->
                     Points(raw[k].end_time, edge_value(metric, edges(raw[k])))])))

get_nodes(raw) == Flatten([k \in DOMAIN raw |-> raw[k].data.nodes])

\* all pairs of positions of a list of len elements, in lexicographic order
PositionPairs(len) ==
    [k \in 1..(len * len) |-> << ((k - 1) \div len) + 1, ((k - 1) % len) + 1 >>]

\* itertools.permutations(ids, 2): pairs of distinct positions
permutations(ids) == SelectSeq(PositionPairs(Len(ids)), LAMBDA p : p[1] # p[2])

\* itertools.combinations(ids, 2)
combinations(ids) == SelectSeq(PositionPairs(Len(ids)), LAMBDA p : p[1] < p[2])

get_all_edges(nodes, directed) ==
    LET ids == [k \in DOMAIN nodes |-> nodes[k].id]
        pairs == IF directed THEN permutations(ids) ELSE combinations(ids)
    IN  [k \in DOMAIN pairs |-> [source |-> ids[pairs[k][1]], target |-> ids[pairs[k][2]]]]

Range(seq) == { seq[k] : k \in DOMAIN seq }

\* analyze_node_change_points up to the segmentation: for every key of the
\* result, the series its change points are taken from (an empty frame gives
\* the key an empty list)
analyze_node_change_points(raw, metric, node_ids) ==
    [nid \in Range(node_ids) |-> fetch_node_metrics(metric, nid, raw).value]

\* analyze_edge_change_points up to the segmentation
analyze_edge_change_points(raw, metric, edges) ==
    [key \in { <<e.source, e.target>> : e \in Range(edges) } |->
        fetch_edge_metrics(metric, key[1], key[2], raw).value]

NodeIds == {None, "A", "B", "C"}
EdgeIds == { <<None, None>>, <<"A", "B">>, <<"B", "A">>, <<"A", "C">> }
NodeIdLists == { <<>>, <<"A">>, <<"A", "C">> }
EdgeKeyLists ==
    { <<>>, << [source |-> "A", target |-> "B"] >>,
      << [source |-> "A", target |-> "B"], [source |-> "A", target |-> "C"] >> }

InitSeries ==
    /\ BuildIdle /\ CPIdle /\ HandlerIdle /\ GapIdle /\ IoIdle
    /\ snapshots \in SnapshotLists
    /\ call = NoCall /\ out = NoOut

Apply(op, metric, entity, result) ==
    /\ call = NoCall
    /\ call' = [op |-> op, metric |-> metric, entity |-> entity]
    /\ out' = result
    /\ UNCHANGED io_vars
    /\ UNCHANGED <<build_vars, cp_vars, snapshots, request, response, window, gap_time>>

FetchNodeMetrics ==
    \E metric \in {"imp", "dep", "freq"}, node_id \in NodeIds :
        Apply("fetch_node_metrics", metric, node_id,
              fetch_node_metrics(metric, node_id, snapshots))

FetchEdgeMetrics ==
    \E metric \in {"freq", "lat", "coexec", "imp"}, e \in EdgeIds :
        Apply("fetch_edge_metrics", metric, e,
              fetch_edge_metrics(metric, e[1], e[2], snapshots))

GetAllEdges ==
    \E directed \in BOOLEAN :
        Apply("get_all_edges", None, IF directed THEN "directed" ELSE "undirected",
              Returned(get_all_edges(get_nodes(snapshots), directed)))

AnalyzeNodeChangePoints ==
    \E node_ids \in NodeIdLists :
        Apply("analyze_node_change_points", "imp", node_ids,
              Returned(analyze_node_change_points(snapshots, "imp", node_ids)))

AnalyzeEdgeChangePoints ==
    \E edges \in EdgeKeyLists :
        Apply("analyze_edge_change_points", "freq", edges,
              Returned(analyze_edge_change_points(snapshots, "freq", edges)))

NextSeries ==
    \/ FetchNodeMetrics
    \/ FetchEdgeMetrics
    \/ GetAllEdges
    \/ AnalyzeNodeChangePoints
    \/ AnalyzeEdgeChangePoints

SpecSeries == InitSeries /\ [][NextSeries]_vars

HoldsNode(entry, id) == \E k \in DOMAIN entry.data.nodes : entry.data.nodes[k].id = id
HoldsEdge(entry, e) ==
    \E k \in DOMAIN entry.data.edges :
        entry.data.edges[k].source = e[1] /\ entry.data.edges[k].target = e[2]

NodeSeriesOf == call.op = "fetch_node_metrics" /\ ~out.raised /\ call.entity # None
EdgeSeriesOf == call.op = "fetch_edge_metrics" /\ ~out.raised /\ call.entity[1] # None

\* C16: the series of one node or edge has a point for a snapshot only if
\* that snapshot holds the entity; an entity no snapshot holds has an empty
\* series and no key in the fleet-wide result
C16_PointOnlyWhereEntityHeld ==
    /\ NodeSeriesOf =>
          \A i \in DOMAIN out.value :
              \E k \in DOMAIN snapshots :
                  /\ snapshots[k].end_time = out.value[i].time
                  /\ HoldsNode(snapshots[k], call.entity)
    /\ EdgeSeriesOf =>
          \A i \in DOMAIN out.value :
              \E k \in DOMAIN snapshots :
                  /\ snapshots[k].end_time = out.value[i].time
                  /\ HoldsEdge(snapshots[k], call.entity)
    /\ call.op = "analyze_node_change_points" =>
          \A nid \in DOMAIN out.value :
              \E k \in DOMAIN snapshots : HoldsNode(snapshots[k], nid)
    /\ call.op = "analyze_edge_change_points" =>
          \A key \in DOMAIN out.value :
              \E k \in DOMAIN snapshots : HoldsEdge(snapshots[k], key)

\* every snapshot, with or without the entity, has its point in the series
S_OnePointPerSnapshot ==
    (NodeSeriesOf \/ EdgeSeriesOf) =>
        /\ Len(out.value) = Len(snapshots)
        /\ \A i \in DOMAIN out.value : i > 1 => out.value[i - 1].time < out.value[i].time

S_Witness ==
    /\ NodeSeriesOf /\ call.entity = "A" /\ Len(snapshots) = 2
    /\ HoldsNode(snapshots[1], "A") /\ ~HoldsNode(snapshots[2], "A")
    /\ snapshots[1].end_time > snapshots[2].end_time

ObservedIds == { nd.id : nd \in Range(get_nodes(snapshots)) }

\* C17: the directed candidate edges are the ordered pairs of distinct node
\* ids, each exactly once and none with source = target
C17_CandidateEdgesDistinctPairs ==
    (call.op = "get_all_edges" /\ call.entity = "directed") =>
        /\ \A i \in DOMAIN out.value : out.value[i].source # out.value[i].target
        /\ \A i, j \in DOMAIN out.value : out.value[i] = out.value[j] => i = j
        /\ { <<e.source, e.target>> : e \in Range(out.value) }
               = { p \in ObservedIds \X ObservedIds : p[1] # p[2] }

\* with every id in one snapshot only, the candidate list is as C17 says
S_CandidateEdgesOfOneSnapshot ==
    (call.op = "get_all_edges" /\ call.entity = "directed" /\ Len(snapshots) <= 1) =>
        /\ \A i \in DOMAIN out.value : out.value[i].source # out.value[i].target
        /\ \A i, j \in DOMAIN out.value : out.value[i] = out.value[j] => i = j
        /\ { <<e.source, e.target>> : e \in Range(out.value) }
               = { p \in ObservedIds \X ObservedIds : p[1] # p[2] }

PersistedNodeField(metric) ==
    IF metric = "imp" THEN "absolute_importance" ELSE "absolute_dependence"
PersistedEdgeField(metric) ==
    IF metric = "freq" THEN "frequency" ELSE IF metric = "lat" THEN "latency" ELSE "co_execution"

PointAt(time) == CHOOSE pt \in Range(out.value) : pt.time = time

\* C18: from a snapshot stored under the persisted field names, the value
\* extracted for an entity is the stored value of the field
C18_PersistedFieldsExtracted ==
    /\ NodeSeriesOf =>
          \A k \in DOMAIN snapshots : \A nd \in Range(snapshots[k].data.nodes) :
              (nd.id = call.entity /\ "absolute_importance" \in DOMAIN nd) =>
                  /\ \E pt \in Range(out.value) : pt.time = snapshots[k].end_time
                  /\ PointAt(snapshots[k].end_time).value
                        = nd[PersistedNodeField(call.metric)] * Scale
    /\ EdgeSeriesOf =>
          \A k \in DOMAIN snapshots : \A e \in Range(snapshots[k].data.edges) :
              (<<e.source, e.target>> = call.entity /\ "co_execution" \in DOMAIN e) =>
                  /\ \E pt \in Range(out.value) : pt.time = snapshots[k].end_time
                  /\ PointAt(snapshots[k].end_time).value
                        = IF call.metric = "freq" THEN e.frequency
                          ELSE e[PersistedEdgeField(call.metric)] * Scale

\* the fields the analyzer reads are extracted with their stored values
S_AnalyzerFieldsExtracted ==
    /\ NodeSeriesOf =>
          \A k \in DOMAIN snapshots : \A nd \in Range(snapshots[k].data.nodes) :
              (nd.id = call.entity /\ "absoluteimportance" \in DOMAIN nd) =>
                  PointAt(snapshots[k].end_time).value
                      = (IF call.metric = "imp" THEN nd.absoluteimportance
                         ELSE nd.absolutedependence) * Scale
    /\ EdgeSeriesOf =>
          \A k \in DOMAIN snapshots : \A e \in Range(snapshots[k].data.edges) :
              (/\ <<e.source, e.target>> = call.entity
               /\ (call.metric \in {"freq", "lat"} \/ "coexecution" \in DOMAIN e)) =>
                      PointAt(snapshots[k].end_time).value
                          = IF call.metric = "freq" THEN e.frequency
                            ELSE IF call.metric = "lat" THEN e.latency * Scale
                            ELSE e.coexecution * Scale

-----------------------------------------------------------------------------
\* The window length check of the /weight route

UsPerSecond == 1000000
UsPerMinute == 60 * UsPerSecond
\* the largest number of whole hours get_gap_time_str lets through (24 * 7)
MaxGapHours == 168

\* a time in microseconds is kept as <<whole minutes, microseconds of the
\* minute>>, within the integers of the checker
GapMinutes == {0, 1, 119, 120, 121, 10079, 10080, 10081, 10139, 10140, 10141, 20160}
GapMicros == {0, 1, UsPerMinute - 1}
StartTimes == { <<0, 0>>, <<0, 1>>, <<1, UsPerMinute - 1>> }
EndTimes == GapMinutes \X GapMicros

\* end_time - start_time
Elapsed(start_time, end_time) ==
    IF end_time[2] >= start_time[2]
    THEN << end_time[1] - start_time[1], end_time[2] - start_time[2] >>
    ELSE << end_time[1] - start_time[1] - 1, end_time[2] - start_time[2] + UsPerMinute >>

\* floor division and remainder of Python, for a positive divisor
FloorDiv(a, b) == IF a >= 0 THEN a \div b ELSE -((-a + b - 1) \div b)
FloorMod(a, b) == a - b * FloorDiv(a, b)

get_gap_time_str(start_time, end_time) ==
    LET gap == Elapsed(start_time, end_time)
        total_minutes == gap[1]
        gap_time_seconds == gap[2] \div UsPerSecond
        gap_time_hours == IF total_minutes >= 120 THEN FloorDiv(total_minutes, 60) ELSE 0
        gap_time_minutes ==
            IF total_minutes >= 120 THEN FloorMod(total_minutes, 60) ELSE total_minutes
    IN  IF gap_time_hours > MaxGapHours
        THEN [raised |-> TRUE, text |-> << FloorDiv(gap_time_hours, 24) >>]
        ELSE IF gap_time_hours = 0
        THEN [raised |-> FALSE, text |-> << gap_time_minutes, gap_time_seconds >>]
        ELSE [raised |-> FALSE,
              text |-> << gap_time_hours, gap_time_minutes, gap_time_seconds >>]

InitGap ==
    /\ BuildIdle /\ CPIdle /\ HandlerIdle /\ SeriesIdle /\ IoIdle
    /\ snapshots = <<>>
    /\ window \in [start_time : StartTimes, end_time : EndTimes]
    /\ gap_time = NoGapTime

GetGapTimeStr ==
    /\ gap_time = NoGapTime
    /\ gap_time' = get_gap_time_str(window.start_time, window.end_time)
    /\ UNCHANGED io_vars
    /\ UNCHANGED <<build_vars, cp_vars, snapshots, request, response, call, out, window>>

NextGap == GetGapTimeStr

SpecGap == InitGap /\ [][NextGap]_vars

SevenDays == << 7 * 24 * 60, 0 >>
Longer(a, b) == a[1] > b[1] \/ (a[1] = b[1] /\ a[2] > b[2])
WindowLength == Elapsed(window.start_time, window.end_time)

\* C19: get_gap_time_str raises for every window longer than 7 days and
\* for no window of 7 days or less
C19_RaisesBeyondSevenDays ==
    gap_time # NoGapTime => (gap_time.raised <=> Longer(WindowLength, SevenDays))

\* what the function does: it raises from 169 whole hours on
G_RaisesFrom169Hours ==
    gap_time # NoGapTime => (gap_time.raised <=> WindowLength[1] >= (MaxGapHours + 1) * 60)

G_NoRaiseUpToSevenDays ==
    (gap_time # NoGapTime /\ ~Longer(WindowLength, SevenDays)) => ~gap_time.raised

G_Witness ==
    /\ gap_time = [raised |-> FALSE, text |-> <<168, 59, 59>>]
    /\ Longer(WindowLength, SevenDays)

-----------------------------------------------------------------------------
\* Writing a graph to Neo4j

\* largest number of times the same graph is written
MaxUpdates == 2

\* edges a written graph may have, and what their attributes hold as weight
StoredEdges == { <<"A", "B">>, <<"B", "A">>, <<"A", "C">> }
\* an edge without a weight attribute is kept as weight 0
NoWeight == 0
StoredWeights == {NoWeight, 1, 2}

\* a DiGraph as (parent, child) -> weight attribute
GraphsToStore == UNION { [E -> StoredWeights] : E \in SUBSET StoredEdges }

\* the stores a write may find: nothing, or one relationship already there
StoresBefore ==
    { EmptyStore, [nodes |-> {"A", "B"}, rels |-> (<<"A", "B">> :> 1)] }

\* attributes.get("weight", 1)
weight_of(g, edge) == IF g[edge] = NoWeight THEN 1 ELSE g[edge]

\* the Cypher statement: MERGE both nodes and the relationship, ON CREATE SET
\* r.weight = $weight, ON MATCH SET r.weight = r.weight + $weight
merge_calls(store, parent, child, weight) ==
    [nodes |-> store.nodes \cup {parent, child},
     rels |-> IF <<parent, child>> \in DOMAIN store.rels
              THEN [store.rels EXCEPT ![<<parent, child>>] = @ + weight]
              ELSE Put(store.rels, <<parent, child>>, weight)]

\* for edge in graph.edges(data=True)
RECURSIVE update_edges(_, _, _)
update_edges(store, g, todo) ==
    IF todo = {} THEN store
    ELSE LET edge == CHOOSE e \in todo : TRUE
         IN  update_edges(merge_calls(store, edge[1], edge[2], weight_of(g, edge)),
                          g, todo \ {edge})

update_graph_in_neo4j(store, g) == update_edges(store, g, DOMAIN g)

InitNeo ==
    /\ BuildIdle /\ CPIdle /\ HandlerIdle /\ SeriesIdle /\ GapIdle
    /\ FilesIdle /\ CollectorIdle
    /\ snapshots = <<>>
    /\ \E store \in StoresBefore :
          neo = [graph |-> EmptyDict, store |-> store, first |-> store, runs |-> 0]

\* the first write of a graph
UpdateGraphInNeo4j ==
    /\ neo.runs = 0
    /\ \E g \in GraphsToStore :
          LET store == update_graph_in_neo4j(neo.store, g)
          IN  neo' = [graph |-> g, store |-> store, first |-> store, runs |-> 1]
    /\ UNCHANGED <<build_vars, cp_vars, an_vars>>
    /\ UNCHANGED <<corpus, retrieval, reply, clock, backend, trace_updates,
                   trace_collection, col>>

\* the same graph is written again
RetryUpdateGraphInNeo4j ==
    /\ neo.runs >= 1 /\ neo.runs < MaxUpdates
    /\ neo' = [neo EXCEPT !.store = update_graph_in_neo4j(neo.store, neo.graph),
                          !.runs = @ + 1]
    /\ UNCHANGED <<build_vars, cp_vars, an_vars>>
    /\ UNCHANGED <<corpus, retrieval, reply, clock, backend, trace_updates,
                   trace_collection, col>>

NextNeo == UpdateGraphInNeo4j \/ RetryUpdateGraphInNeo4j

SpecNeo == InitNeo /\ [][NextNeo]_vars

\* C21: writing the same graph again leaves the store as the first write
\* left it: same Service nodes, same CALLS relationships, same weights
C21_UpdateIdempotent ==
    neo.runs >= 1 => neo.store = neo.first

\* what a retry does keep: the nodes and the relationships
N_RetryKeepsNodesAndRelationships ==
    neo.runs >= 1 =>
        /\ neo.store.nodes = neo.first.nodes
        /\ DOMAIN neo.store.rels = DOMAIN neo.first.rels

\* what a retry does to the weights: every written relationship grows by
\* the weight of its edge
N_RetryAddsWeight ==
    neo.runs >= 1 =>
        \A e \in DOMAIN neo.graph :
            neo.store.rels[e] = neo.first.rels[e] + (neo.runs - 1) * weight_of(neo.graph, e)

N_Witness == neo.runs = 2 /\ DOMAIN neo.graph # {} /\ neo.store # neo.first

-----------------------------------------------------------------------------
\* assign_edge_weights on aggregated entries given by a caller

\* latency samples of an entry, in units of 1/Scale ms
LatencyLists == { <<>>, <<10000>>, <<10000, 20000>>, <<10000, 10001>> }
AggregatedEntries == { [count |-> Len(l), latencies |-> l] : l \in LatencyLists }
AggregatedEdgeWeights ==
    UNION { [E -> AggregatedEntries] : E \in SUBSET { <<"A", "B">>, <<"B", "A">> } }
ExecutionSetInputs == { EmptyDict, [v \in {"A", "B"} |-> {1}] }

\* sum(data["latencies"]) / len(data["latencies"]) raises ZeroDivisionError
avg_latency_raises(latencies) == Len(latencies) = 0

\* the loop stops at the first entry whose mean cannot be computed
assign_edge_weights_zero_division(ew) ==
    \E k \in DOMAIN ew : avg_latency_raises(ew[k].latencies)

InitAssign ==
    /\ CPIdle /\ IoIdle
    /\ snapshots = <<>> /\ HandlerIdle /\ SeriesIdle /\ GapIdle
    /\ fn = "assign_edge_weights" /\ pc = "called" /\ n = 0
    /\ edge_weights \in AggregatedEdgeWeights
    /\ execution_sets \in ExecutionSetInputs
    /\ flat = EmptyDict /\ edge_weight_type = None /\ graph = EmptyGraph
    /\ observed = [e \in Services \X Services |-> 0]
    /\ participants = [v \in Services |-> {}]
    /\ batch = <<>>

AssignEdgeWeights ==
    /\ fn = "assign_edge_weights" /\ pc = "called"
    /\ \E wt \in RecognizedTypes :
        /\ edge_weight_type' = wt
        /\ IF assign_edge_weights_zero_division(edge_weights)
           THEN pc' = "raised" /\ UNCHANGED graph
           ELSE /\ pc' = "done"
                /\ graph' = assign_edge_weights(wt, EmptyGraph, edge_weights, execution_sets)
    /\ UNCHANGED <<fn, n, edge_weights, execution_sets, flat, observed, participants,
                   batch>>
    /\ UNCHANGED cp_vars
    /\ UNCHANGED an_vars
    /\ UNCHANGED io_vars

NextAssign == AssignEdgeWeights

SpecAssign == InitAssign /\ [][NextAssign]_vars

Assigned == fn = "assign_edge_weights" /\ pc # "called"

\* C22: assign_edge_weights stores latency(ms) = 0 for an entry without
\* latency samples instead of failing, and the rounded arithmetic mean of the
\* samples otherwise
C22_EmptyLatencyGuarded ==
    Assigned =>
        /\ pc = "done"
        /\ \A k \in DOMAIN edge_weights :
              graph.edges[k].latency_ms =
                  IF edge_weights[k].latencies = <<>> THEN 0
                  ELSE RoundHalfEven(SumSeq(edge_weights[k].latencies),
                                     Len(edge_weights[k].latencies))

\* with at least one sample in every entry the mean is stored
A_MeanOfSamplesStored ==
    (Assigned /\ \A k \in DOMAIN edge_weights : edge_weights[k].latencies # <<>>) =>
        /\ pc = "done"
        /\ \A k \in DOMAIN edge_weights :
              graph.edges[k].latency_ms =
                  RoundHalfEven(SumSeq(edge_weights[k].latencies),
                                Len(edge_weights[k].latencies))

A_Witness ==
    /\ Assigned /\ pc = "done"
    /\ \E k \in DOMAIN edge_weights : graph.edges[k].latency_ms = 15000

-----------------------------------------------------------------------------
\* Trace files and the graph routes that read them

\* largest number of trace files in TRACES_DIR
MaxFiles == 2

\* times of the file corpus, in ticks; 0 is the routes' "not given"
FileTimes == 1..3
\* the clock of a route call and the 15 minutes the routes look back, in ticks
RouteNow == 3
LookBack == 2

TimedSpan(id, pid, d, r, t) ==
    [spanID |-> id, processID |-> pid, duration |-> d, references |-> r, startTime |-> t]

\* the traces the files hold: a call A -> B, a single span, and a trace whose
\* process has no serviceName
FileTraces ==
    { [traceID |-> 1, processes |-> [p \in PIDs |-> IF p = "p1" THEN "A" ELSE "B"],
       spans |-> << TimedSpan("s1", "p1", 1000, <<>>, 1),
                    TimedSpan("s2", "p2", 2000, <<Ref(CHILD_OF, "s1")>>, 2) >>],
      [traceID |-> 2, processes |-> [p \in {"p1"} |-> "A"],
       spans |-> << TimedSpan("s1", "p1", 1000, <<>>, 3) >>],
      [traceID |-> 3, processes |-> [p \in {"p1"} |-> Missing],
       spans |-> << TimedSpan("s1", "p1", 1000, <<>>, 2) >>] }

StartsWithin(trace, start_us, end_us) ==
    \E i \in DOMAIN trace.spans :
        start_us <= trace.spans[i].startTime /\ trace.spans[i].startTime <= end_us

\* a file <from>_<to>.json holds traces with a span started in its range
TraceFiles ==
    { [from |-> a, to |-> b, traces |-> ts] :
        a \in FileTimes, b \in FileTimes, ts \in SUBSET FileTraces } 

WellNamed(f) == f.from <= f.to /\ \A t \in f.traces : StartsWithin(t, f.from, f.to)

\* the directories of at most k files, no two with the same name
RECURSIVE Directories(_)
Directories(k) ==
    IF k = 0 THEN { {} }
    ELSE LET smaller == Directories(k - 1)
         IN  smaller \cup
             { fs \cup {f} : fs \in smaller,
                             f \in { f \in TraceFiles : WellNamed(f) } }

\* a directory that cannot be listed makes the retrieval fail
Corpora ==
    { [listable |-> TRUE, files |-> fs] :
        fs \in { fs \in Directories(MaxFiles) :
                   \A f, g \in fs : (f.from = g.from /\ f.to = g.to) => f = g } }
    \cup { [listable |-> FALSE, files |-> {}] }

\* the result of a retrieval: None after an exception, else the traces; the
\* order and the repetitions of the returned list are not kept
Retrieved(start_us, end_us, failed, traces) ==
    [start_us |-> start_us, end_us |-> end_us, returned |-> TRUE, failed |-> failed,
     traces |-> traces]

get_traces_from_files_within_timerange(dir, start_us, end_us) ==
    IF ~dir.listable THEN Retrieved(start_us, end_us, TRUE, {})
    ELSE LET filtered_files == { f \in dir.files : f.from >= start_us /\ f.to <= end_us }
             all_traces == UNION { f.traces : f \in filtered_files }
         IN  Retrieved(start_us, end_us, FALSE,
                       { trace \in all_traces : StartsWithin(trace, start_us, end_us) })

\* `if not traces`: None and the empty list alike
not_traces(r) == r.failed \/ r.traces = {}

\* for trace in traces, in the order of the list
RECURSIVE gw_traces(_, _)
gw_traces(st, traces) ==
    IF traces = {} \/ st.err THEN st
    ELSE LET trace == CHOOSE t \in traces : \A u \in traces : t.traceID <= u.traceID
         IN  gw_traces(gw_trace(st, trace), traces \ {trace})

Reply(route, status, message) == [route |-> route, status |-> status, message |-> message]

\* generate_graph_with_edge_weights(traces, type) inside a route: an
\* exception goes to the route's except branch
generated(route, traces, wt, message) ==
    LET st == gw_traces([ew |-> EmptyDict, es |-> EmptyDict, flat |-> EmptyDict,
                         err |-> FALSE], traces)
    IN  IF st.err \/ assign_edge_weights_raises(wt, st.ew)
        THEN Reply(route, "error", "500")
        ELSE Reply(route, "success", message)

\* GET /weight
get_weighted_dependency_graph_from_files(weight_type, start_time, end_time, r) ==
    IF weight_type \notin RecognizedTypes THEN Reply("/weight", "error", "400")
    ELSE IF start_time # 0 /\ end_time # 0 /\ start_time >= end_time
    THEN Reply("/weight", "error", "400")
    ELSE IF get_gap_time_str(<<0, r.start_us>>, <<0, r.end_us>>).raised
    THEN Reply("/weight", "error", "400")
    ELSE IF not_traces(r) THEN Reply("/weight", "success", "No traces to process.")
    ELSE generated("/weight", r.traces, weight_type,
                   "Weighted Dependency graph generated successfully.")

\* the window /weight retrieves: 0 stands for the last 15 minutes and now
weight_window(start_time, end_time) ==
    << IF start_time = 0 THEN RouteNow - LookBack ELSE start_time,
       IF end_time = 0 THEN RouteNow ELSE end_time >>

\* POST /save; the write of line 103 is assumed to return an id
save_graph(r) ==
    IF not_traces(r) THEN Reply("/save", "success", "No traces to process.")
    ELSE generated("/save", r.traces, WEIGHT_TYPES.CoExecution, "Graph saved successfully.")

InitFiles ==
    /\ BuildIdle /\ CPIdle /\ HandlerIdle /\ SeriesIdle /\ GapIdle
    /\ StoreIdle /\ CollectorIdle
    /\ snapshots = <<>>
    /\ corpus \in Corpora
    /\ retrieval = NoRetrieval /\ reply = NoReply

FilesFrame ==
    /\ UNCHANGED <<build_vars, cp_vars, an_vars>>
    /\ UNCHANGED <<neo, corpus, clock, backend, trace_updates, trace_collection, col>>

GetTracesFromFiles ==
    /\ ~retrieval.returned /\ reply = NoReply
    /\ \E start_us \in FileTimes, end_us \in FileTimes :
          retrieval' = get_traces_from_files_within_timerange(corpus, start_us, end_us)
    /\ UNCHANGED reply
    /\ FilesFrame

WeightRoute ==
    /\ ~retrieval.returned /\ reply = NoReply
    /\ \E weight_type \in {WEIGHT_TYPES.Latency, WEIGHT_TYPES.CoExecution, "other"},
          start_time \in {0} \cup FileTimes, end_time \in {0} \cup FileTimes :
          LET w == weight_window(start_time, end_time)
              r == get_traces_from_files_within_timerange(corpus, w[1], w[2])
              fetched == /\ weight_type \in RecognizedTypes
                         /\ ~(start_time # 0 /\ end_time # 0 /\ start_time >= end_time)
                         /\ ~get_gap_time_str(<<0, w[1]>>, <<0, w[2]>>).raised
          IN  /\ retrieval' = IF fetched THEN r ELSE retrieval
              /\ reply' = get_weighted_dependency_graph_from_files(
                              weight_type, start_time, end_time, r)
    /\ FilesFrame

SaveRoute ==
    /\ ~retrieval.returned /\ reply = NoReply
    /\ LET r == get_traces_from_files_within_timerange(corpus, RouteNow - LookBack, RouteNow)
       IN  retrieval' = r /\ reply' = save_graph(r)
    /\ FilesFrame

NextFiles == GetTracesFromFiles \/ WeightRoute \/ SaveRoute

SpecFiles == InitFiles /\ [][NextFiles]_vars

StoredTraces == UNION { f.traces : f \in corpus.files }

FunctionReturned == retrieval.returned /\ reply = NoReply

\* C23: the retrieval returns exactly the stored traces with a span started
\* in the window, also from files whose name range only partly overlaps it
C23_ExactlyTracesInWindow ==
    (FunctionReturned /\ ~retrieval.failed) =>
        retrieval.traces =
            { t \in StoredTraces : StartsWithin(t, retrieval.start_us, retrieval.end_us) }

\* every returned trace has a span started in the window
F_ReturnedTracesInWindow ==
    retrieval.returned =>
        \A t \in retrieval.traces : StartsWithin(t, retrieval.start_us, retrieval.end_us)

\* no trace is omitted from a file whose name range lies within the window
F_FilesWithinWindowComplete ==
    (retrieval.returned /\ ~retrieval.failed) =>
        \A f \in corpus.files :
            (f.from >= retrieval.start_us /\ f.to <= retrieval.end_us) =>
                \A t \in f.traces :
                    StartsWithin(t, retrieval.start_us, retrieval.end_us)
                        => t \in retrieval.traces

F_Witness ==
    /\ FunctionReturned /\ retrieval.traces # {}
    /\ \E f \in corpus.files : f.from < retrieval.start_us /\ f.to >= retrieval.start_us

\* C24: when the retrieval failed, /weight and /save answer with an error,
\* not with success and "No traces to process."
C24_FailureNotSuccess ==
    (reply.route \in {"/weight", "/save"} /\ retrieval.returned /\ retrieval.failed) =>
        reply.status = "error"

\* a route that got traces answers with the graph, or with 500 when the
\* builder raised
F_Generated ==
    (reply.route \in {"/weight", "/save"} /\ retrieval.returned /\ retrieval.traces # {}) =>
        reply.message \in {"Weighted Dependency graph generated successfully.",
                           "Graph saved successfully.", "500"}

F_RouteWitness == reply.route = "/save" /\ reply.message = "Graph saved successfully."

-----------------------------------------------------------------------------
\* Incremental trace collection for one service

\* the clock stops at MaxClock ticks
MaxClock == 26

\* the 5 minutes of a batch, in ticks
BatchLen == 1
\* empty batches in a row that do not yet stop a run
MaxEmptyBatches == 10

\* by how many ticks the clock may advance between two runs
Advances == {1, 3}

\* start times of the traces the backend holds for the service
Backends == { {}, {1}, {3, 4}, {24}, {2, 24} }

\* the record of the service: no cursor yet, or a cursor at 0
Cursors == {NoCursor, 0}

\* the traces Jaeger returns for a window
fetch_traces(held, start_us, end_us) == { t \in held : start_us <= t /\ t <= end_us }

\* min(last_end_time_us + 5 minutes, current_time_us)
next_end(last_end_time_us, current_time_us) ==
    IF last_end_time_us + BatchLen < current_time_us
    THEN last_end_time_us + BatchLen ELSE current_time_us

next_start_overlapping(next_end_time_us) == next_end_time_us

\* last_end_time_us = next_end_time_us + 1
next_start(next_end_time_us) == next_end_time_us + 1

InitCollect ==
    /\ BuildIdle /\ CPIdle /\ HandlerIdle /\ SeriesIdle /\ GapIdle
    /\ StoreIdle /\ FilesIdle
    /\ snapshots = <<>>
    /\ clock = 0
    /\ backend \in Backends
    /\ trace_updates \in Cursors
    /\ trace_collection = {}
    /\ col = NoCol

CollectFrame ==
    /\ UNCHANGED <<build_vars, cp_vars, an_vars>>
    /\ UNCHANGED <<neo, corpus, retrieval, reply, backend>>

\* lines 94-109, some time after the previous run
Invoke ==
    /\ col.pc \in {"idle", "returned"}
    /\ \E d \in Advances :
        LET now == IF clock + d < MaxClock THEN clock + d ELSE MaxClock
            last_end_time_us == IF trace_updates = NoCursor THEN now - BatchLen
                                ELSE trace_updates
        IN  /\ clock' = now
            /\ col' = [pc |-> "loop", last_end_time_us |-> last_end_time_us,
                       current_time_us |-> now, next_end_time_us |-> last_end_time_us - 1,
                       consecutive_no_trace_batches |-> 0, total_stored |-> 0,
                       origin |-> IF col.origin = NoCursor /\ col.pc = "idle"
                                  THEN last_end_time_us ELSE col.origin]
    /\ UNCHANGED <<trace_updates, trace_collection>>
    /\ CollectFrame

\* one iteration of the while loop with the batch `traces`
Batch(traces) ==
    /\ col.pc = "loop"
    /\ col.last_end_time_us < col.current_time_us
    /\ LET next_end_time_us == next_end(col.last_end_time_us, col.current_time_us)
       IN  IF traces = {}
           THEN /\ UNCHANGED <<trace_updates, trace_collection>>
                /\ IF col.consecutive_no_trace_batches + 1 > MaxEmptyBatches
                   THEN col' = [col EXCEPT !.pc = "returned",
                                           !.next_end_time_us = next_end_time_us,
                                           !.consecutive_no_trace_batches = @ + 1]
                   ELSE col' = [col EXCEPT !.next_end_time_us = next_end_time_us,
                                           !.consecutive_no_trace_batches = @ + 1,
                                           !.last_end_time_us = next_start(next_end_time_us)]
           ELSE /\ trace_collection' = trace_collection \cup traces
                /\ trace_updates' = next_start(next_end_time_us)
                /\ col' = [col EXCEPT !.next_end_time_us = next_end_time_us,
                                      !.consecutive_no_trace_batches = 0,
                                      !.total_stored =
                                          @ + Cardinality(traces \ trace_collection),
                                      !.last_end_time_us = next_start(next_end_time_us)]
    /\ UNCHANGED clock
    /\ CollectFrame

\* the backend answers the request
FetchBatch ==
    Batch(fetch_traces(backend, col.last_end_time_us,
                       next_end(col.last_end_time_us, col.current_time_us)))

\* the request fails and fetch_traces returns []
FetchFails == Batch({})

\* the loop condition is false: the totals are printed and returned
Return ==
    /\ col.pc = "loop"
    /\ col.last_end_time_us >= col.current_time_us
    /\ col' = [col EXCEPT !.pc = "returned"]
    /\ UNCHANGED <<clock, trace_updates, trace_collection>>
    /\ CollectFrame

Running == FetchBatch \/ FetchFails \/ Return

NextCollect == Invoke \/ FetchBatch \/ FetchFails \/ Return

\* a started run goes on, whatever the backend answers
SpecCollect == InitCollect /\ [][NextCollect]_vars /\ WF_vars(Running)

NextCollectAvailable == Invoke \/ FetchBatch \/ Return

\* the backend is available, runs are repeated for ever and each goes on
SpecCollectAvailable ==
    InitCollect /\ [][NextCollectAvailable]_vars
        /\ WF_vars(Invoke) /\ WF_vars(FetchBatch \/ Return)

\* the batch of the step was not empty: only then is the cursor written
BatchStored == trace_updates' # trace_updates

\* what one step of a started run does to its window and its counter
LoopStep ==
    (col.pc = "loop" /\ col' # col) =>
        IF col'.pc = "loop"
        THEN /\ col.last_end_time_us < col.current_time_us
             /\ col.next_end_time_us < col.last_end_time_us
             /\ col.last_end_time_us <= col'.next_end_time_us
             /\ col'.last_end_time_us = col'.next_end_time_us + 1
             /\ col'.last_end_time_us > col.last_end_time_us
             /\ col'.consecutive_no_trace_batches =
                    IF BatchStored THEN 0 ELSE col.consecutive_no_trace_batches + 1
        ELSE \/ col.last_end_time_us >= col.current_time_us
             \/ col'.consecutive_no_trace_batches > MaxEmptyBatches

AfterOrigin == { t \in backend : t >= col.origin }

Collected ==
    /\ col.origin # NoCursor
    /\ \A t \in AfterOrigin : t \in trace_collection /\ trace_updates > t

\* C25: with the backend available and runs repeated as time advances, the
\* persisted cursor eventually passes every trace the backend holds after
\* the initial cursor and each such trace is eventually stored, also across
\* more than 11 empty windows in a row.
C25_EveryTraceEventuallyStored == <>Collected

\* what does hold: traces no further than 11 windows from a persisted
\* cursor are collected
K_NearTracesCollected ==
    (trace_updates = 0 /\ backend \in { {}, {1}, {3, 4}, {2, 24} }) => <>Collected

\* the cursor never moves back and only stored traces are behind it
K_CursorMonotone ==
    [][trace_updates' >= trace_updates]_vars

\* a run that gave up after 11 empty windows with the trace still ahead
K_Stuck ==
    /\ col.pc = "returned"
    /\ col.consecutive_no_trace_batches > MaxEmptyBatches
    /\ trace_updates = 0
    /\ backend = {24}
    /\ clock = MaxClock

-----------------------------------------------------------------------------
\* Call observations per span, over batches whose traces share span ids

CallerAndCallee == [p \in PIDs |-> IF p = "p1" THEN "A" ELSE "B"]
OtherCallee == [p \in PIDs |-> IF p = "p1" THEN "A" ELSE "C"]
SameService == [p \in PIDs |-> "A"]

\* reference lists of span s2; s3 is the id of a span of another trace only
BatchRefLists == { <<>>,
                   <<Ref(CHILD_OF, "s1")>>,
                   <<Ref(CHILD_OF, "s3")>>,
                   <<Ref(FOLLOWS_FROM, "s1")>>,
                   <<Ref(CHILD_OF, "s1"), Ref(CHILD_OF, "s1")>>,
                   <<Ref(CHILD_OF, "s3"), Ref(CHILD_OF, "s1")>> }

\* traces with spans s1, s2 and traces with spans s3, s4; the last trace has
\* two spans with the id s1, run by different services
BatchTraces ==
         { [processes |-> CallerAndCallee,
            spans |-> << Span("s1", "p1", 1000, <<>>), Span("s2", "p2", 1000, r) >>] :
             r \in BatchRefLists }
    \cup { [processes |-> pm,
            spans |-> << Span("s3", "p1", 1000, <<>>),
                         Span("s4", "p2", 2000, <<Ref(CHILD_OF, "s3")>>) >>] :
             pm \in {OtherCallee, SameService} }
    \cup { [processes |-> OtherCallee,
            spans |-> << Span("s1", "p2", 1000, <<>>), Span("s1", "p1", 1000, <<>>),
                         Span("s2", "p1", 1000, <<Ref(CHILD_OF, "s1")>>) >>] }

InitBatch ==
    /\ CPIdle /\ IoIdle
    /\ snapshots = <<>> /\ HandlerIdle /\ SeriesIdle /\ GapIdle
    /\ participants = [v \in Services |-> {}]
    /\ batch = <<>>
    /\ fn \in Builders
    /\ pc = "loop"
    /\ n = 0
    /\ edge_weights = EmptyDict
    /\ execution_sets = EmptyDict
    /\ flat = EmptyDict
    /\ edge_weight_type = None
    /\ graph = EmptyGraph
    /\ observed = [e \in Services \X Services |-> 0]

\* one iteration of `for trace in traces`, the trace being recorded
ConsumeRecorded(t) ==
    /\ pc = "loop"
    /\ n < MaxTraces
    /\ LET trace == [traceID |-> n + 1, processes |-> t.processes, spans |-> t.spans]
           st == [ew |-> edge_weights, es |-> execution_sets, flat |-> flat, err |-> FALSE]
           st2 == IF fn = "generate_graph_with_edge_weights" THEN gw_trace(st, trace)
                  ELSE gp_trace(fn, st, trace)
       IN  /\ ~st2.err
           /\ n' = n + 1
           /\ edge_weights' = st2.ew
           /\ execution_sets' = st2.es
           /\ flat' = st2.flat
           /\ observed' = Observe(observed, trace)
           /\ participants' = Participate(participants, trace)
           /\ batch' = Append(batch, trace)
    /\ UNCHANGED <<fn, pc, edge_weight_type, graph>>
    /\ UNCHANGED cp_vars
    /\ UNCHANGED an_vars
    /\ UNCHANGED io_vars

NextBatchTrace == \E t \in BatchTraces : ConsumeRecorded(t)

NextBatch == NextBatchTrace \/ Generate

SpecBatch == InitBatch /\ [][NextBatch]_vars

\* <<position of the trace in the batch, position of the span in the trace>>
SpansOfBatch ==
    UNION { { <<t, i>> : i \in DOMAIN batch[t].spans } : t \in DOMAIN batch }

\* the id of the first CHILD_OF reference of a span, if it has one
RefersTo(trace, i) ==
    LET refs == trace.spans[i].references
        cj == { j \in DOMAIN refs : refs[j].refType = CHILD_OF }
    IN  IF cj = {} THEN {} ELSE { refs[Min(cj)].spanID }

ChildOfSpans == { s \in SpansOfBatch : RefersTo(batch[s[1]], s[2]) # {} }

CarriedBy(t) == { batch[t].spans[i].spanID : i \in DOMAIN batch[t].spans }

\* spans whose parent id is carried by spans of other traces only
ForeignParentSpans ==
    { s \in ChildOfSpans :
        \A id \in RefersTo(batch[s[1]], s[2]) :
            /\ id \notin CarriedBy(s[1])
            /\ \E u \in DOMAIN batch \ {s[1]} : id \in CarriedBy(u) }

RECURSIVE SumCounts(_, _)
SumCounts(counts, keys) ==
    IF keys = {} THEN 0
    ELSE LET k == CHOOSE x \in keys : TRUE
         IN  counts[k] + SumCounts(counts, keys \ {k})

\* the call observations accumulated by the loop
Observations ==
    IF fn = "generate_flat_graph_from_traces"
    THEN SumCounts(flat, DOMAIN flat)
    ELSE SumCounts([k \in DOMAIN edge_weights |-> edge_weights[k].count],
                   DOMAIN edge_weights)

\* the sum of `frequency` over the edges of the returned graph
TotalFrequency ==
    SumCounts([k \in DOMAIN graph.edges |->
                  IF fn = "generate_flat_graph_from_traces"
                  THEN graph.edges[k].weight ELSE graph.edges[k].frequency],
              DOMAIN graph.edges)

\* C27: a span is at most one call observation, made from its first
\* CHILD_OF reference and a parent found among the spans of its own trace:
\* the observations, and the sum of `frequency` over the edges of the
\* returned graph, never exceed the number of spans of the batch that have a
\* CHILD_OF reference and whose parent id is not one that only spans of
\* other traces carry.
C27_AtMostOneObservationPerSpan ==
    /\ Observations <= Cardinality(ChildOfSpans)
    /\ Observations <= Cardinality(ChildOfSpans \ ForeignParentSpans)
    /\ pc = "done" => TotalFrequency = Observations

\* a returned graph over a batch in which one span found its parent in its
\* own trace and another span names a parent that only the other trace has
C27_Witness ==
    /\ pc = "done" /\ fn = "generate_graph_with_edge_weights"
    /\ edge_weight_type = WEIGHT_TYPES.Latency
    /\ ForeignParentSpans # {}
    /\ TotalFrequency = 1
    /\ Cardinality(ChildOfSpans) = 2

\* the first span carrying the parent id is the parent: the call is C -> A,
\* where the second span with that id would make it a self-loop
B_FirstMatchingSpanIsParent ==
    (/\ Len(batch) = 1
     /\ Len(batch[1].spans) = 3
     /\ fn # "generate_flat_graph_from_traces") => DOMAIN edge_weights = {<<"C", "A">>}

====
